---- MODULE Spec2Model ----
(***************************************************************************)
(* findup: duplicate-file finder.  Model of src/src/main.rs:               *)
(*   Walker (new / Iterator::next), group_by_len, same_size_to_checksums,  *)
(*   print_result, Duplicates::summarize and the mode1 pipeline.           *)
(***************************************************************************)
EXTENDS Integers, Sequences, FiniteSets, TLC

(* ------------------------------ bounds --------------------------------- *)
\* file contents are drawn from 0..MaxContent
MaxContent == 2
\* at most MaxFaults I/O failures are injected while walking below the root
MaxFaults == 2

(* --------------------------- the file system --------------------------- *)
\* Directory tree shape.  Node 0 is the root handed to mode1; the name of a
\* node is its number.  Listing[d] is the order in which the operating
\* system lists the children of d (it is not sorted by name).
Nodes == 0..6
Root == 0
Listing ==
  [n \in Nodes |-> CASE n = 0 -> <<2, 6, 1>>
                     [] n = 2 -> <<4, 3>>
                     [] n = 4 -> <<5>>
                     [] OTHER -> <<>>]

Kinds == {"file", "dir", "symlink", "other", "absent"}
Contents == 0..MaxContent

Range(s) == {s[i] : i \in 1..Len(s)}

Parent(n) == CHOOSE p \in Nodes : n \in Range(Listing[p])

RECURSIVE PathOf(_)
\* entry.path(): the directory's path joined with the entry's name
PathOf(n) == IF n = Root THEN <<>> ELSE Append(PathOf(Parent(n)), n)

\* the node a path resolves to (fs::read(path))
NodeAt(path) == CHOOSE n \in Nodes : PathOf(n) = path

\* md.len(): the byte length of a content
ContentLen(c) == 1 + (c \div 2)

\* Sha256::digest(content): a collision-free digest of the content
Hash(c) == (5 * c + 3) % 7

(* ------------------------------- state --------------------------------- *)
VARIABLES
  kind,            \* file system: node -> kind (lstat, symlinks not followed)
  content,         \* file system: node -> content of a regular file
  pc,              \* position in mode1
  iterator_stack,  \* Walker.iterator_stack: cursors [dir, pos]
  depth,           \* nested activations of Walker::next currently live
  entry,           \* the item Walker::next has just returned to fold
  map,             \* pass1: the Duplicates accumulated by fold
  pass2,           \* the Duplicates after same_size_to_checksums
  printed,         \* the groups print_result iterated, in order
  summary,         \* result.summarize()
  emitted,         \* history: every item returned by Walker::next
  visited,         \* history: nodes a cursor has yielded
  failed,          \* history: injected failures <<operation, node>>
  unreadable       \* history: paths whose fs::read failed in pass 2

vars == <<kind, content, pc, iterator_stack, depth, entry, map, pass2,
          printed, summary, emitted, visited, failed, unreadable>>

EmptyMap == [k \in {} |-> <<>>]
NoEntry == [tag |-> "None"]
NoSummary == [files |-> 0, candidates |-> 0, bytes |-> 0]

\* A node exists as listed only below a directory; below a symbolic link to
\* a directory lie plain files the walker must not reach.
TreeOk(kd) ==
  /\ kd[Root] = "dir"
  /\ \A n \in Nodes \ {Root} :
       LET pk == kd[Parent(n)] IN
       /\ (pk = "dir") => kd[n] # "absent"
       /\ (pk = "symlink") => kd[n] = "file"
       /\ (pk \notin {"dir", "symlink"}) => kd[n] = "absent"

\* the regular files whose content the tree may vary
FreeFiles(kd) == {n \in Nodes \ {Root} : kd[n] = "file" /\ kd[Parent(n)] = "dir"}

Init ==
  /\ kind \in [Nodes -> Kinds]
  /\ TreeOk(kind)
  /\ \E c \in [FreeFiles(kind) -> Contents] :
       content = [n \in Nodes |-> IF n \in DOMAIN c THEN c[n] ELSE 0]
  /\ pc = "start"
  /\ iterator_stack = <<>>
  /\ depth = 0
  /\ entry = NoEntry
  /\ map = EmptyMap
  /\ pass2 = EmptyMap
  /\ printed = <<>>
  /\ summary = NoSummary
  /\ emitted = <<>>
  /\ visited = {}
  /\ failed = {}
  /\ unreadable = {}

(* ------------------------------- Walker -------------------------------- *)
FileEntry(n) == [tag |-> "File", path |-> PathOf(n), len |-> ContentLen(content[n])]
ErrorEntry(path) == [tag |-> "Error", path |-> path]

Top == iterator_stack[Len(iterator_stack)]
\* the child the top cursor yields next
Child == Listing[Top.dir][Top.pos]
HasChild == Len(iterator_stack) > 0 /\ Top.pos <= Len(Listing[Top.dir])
CanFail == Cardinality(failed) < MaxFaults

\* the stack with its top cursor moved to position k
Advance(k) ==
  [iterator_stack EXCEPT ![Len(iterator_stack)] = [dir |-> Top.dir, pos |-> k]]

\* Walker::next returns Some(e) to fold
Return(e) ==
  /\ entry' = e
  /\ emitted' = Append(emitted, e)
  /\ depth' = 0
  /\ pc' = "fold"

\* Walker::new: fs::read_dir(path)? either fails (mode1 returns the error)
\* or pushes the root cursor; fold then calls next.
WalkerNew ==
  /\ pc = "start"
  /\ \E ok \in BOOLEAN :
       IF ok
         THEN /\ iterator_stack' = <<[dir |-> Root, pos |-> 1]>>
              /\ pc' = "next"
              /\ depth' = 1
         ELSE /\ pc' = "fatal"
              /\ UNCHANGED <<iterator_stack, depth>>
  /\ UNCHANGED <<kind, content, entry, map, pass2, printed, summary, emitted,
                 visited, failed, unreadable>>

\* len == 0: return None; fold ends
NextNone ==
  /\ pc = "next"
  /\ Len(iterator_stack) = 0
  /\ pc' = "pass2"
  /\ depth' = 0
  /\ UNCHANGED <<kind, content, iterator_stack, entry, map, pass2, printed,
                 summary, emitted, visited, failed, unreadable>>

\* current_iterator.next() is None: pop and call self.next()
NextPop ==
  /\ pc = "next"
  /\ Len(iterator_stack) > 0
  /\ ~HasChild
  /\ iterator_stack' = SubSeq(iterator_stack, 1, Len(iterator_stack) - 1)
  /\ depth' = depth + 1
  /\ UNCHANGED <<kind, content, pc, entry, map, pass2, printed, summary,
                 emitted, visited, failed, unreadable>>

\* current_iterator.next() is Some(Err(err)): Error with an empty path.  The
\* entry that could not be read is lost; the operating system's cursor then
\* continues at some later entry or at the end of the listing.
NextEntryErr ==
  /\ pc = "next"
  /\ HasChild
  /\ CanFail
  /\ \E k \in (Top.pos + 1)..(Len(Listing[Top.dir]) + 1) :
       iterator_stack' = Advance(k)
  /\ failed' = failed \cup {<<"entry", Child>>}
  /\ Return(ErrorEntry(<<>>))
  /\ UNCHANGED <<kind, content, map, pass2, printed, summary, visited,
                 unreadable>>

\* entry.metadata().unwrap() on Err: the thread panics
NextMetadataPanic ==
  /\ pc = "next"
  /\ HasChild
  /\ CanFail
  /\ iterator_stack' = Advance(Top.pos + 1)
  /\ visited' = visited \cup {Child}
  /\ failed' = failed \cup {<<"metadata", Child>>}
  /\ pc' = "panic"
  /\ UNCHANGED <<kind, content, depth, entry, map, pass2, printed, summary,
                 emitted, unreadable>>

\* entry.file_type() is Err(err): Error with the entry's path
NextFileTypeErr ==
  /\ pc = "next"
  /\ HasChild
  /\ CanFail
  /\ iterator_stack' = Advance(Top.pos + 1)
  /\ visited' = visited \cup {Child}
  /\ failed' = failed \cup {<<"file_type", Child>>}
  /\ Return(ErrorEntry(PathOf(Child)))
  /\ UNCHANGED <<kind, content, map, pass2, printed, summary, unreadable>>

\* typ.is_dir() and fs::read_dir(&path) is Ok(neu): push, call self.next()
NextDirPush ==
  /\ pc = "next"
  /\ HasChild
  /\ kind[Child] = "dir"
  /\ iterator_stack' = Append(Advance(Top.pos + 1), [dir |-> Child, pos |-> 1])
  /\ visited' = visited \cup {Child}
  /\ depth' = depth + 1
  /\ UNCHANGED <<kind, content, pc, entry, map, pass2, printed, summary,
                 emitted, failed, unreadable>>

\* typ.is_dir() and fs::read_dir(&path) is Err(err): Error with the path
NextDirErr ==
  /\ pc = "next"
  /\ HasChild
  /\ kind[Child] = "dir"
  /\ CanFail
  /\ iterator_stack' = Advance(Top.pos + 1)
  /\ visited' = visited \cup {Child}
  /\ failed' = failed \cup {<<"open", Child>>}
  /\ Return(ErrorEntry(PathOf(Child)))
  /\ UNCHANGED <<kind, content, map, pass2, printed, summary, unreadable>>

\* typ.is_file(): File with the path and the length from the metadata
NextFile ==
  /\ pc = "next"
  /\ HasChild
  /\ kind[Child] = "file"
  /\ iterator_stack' = Advance(Top.pos + 1)
  /\ visited' = visited \cup {Child}
  /\ Return(FileEntry(Child))
  /\ UNCHANGED <<kind, content, map, pass2, printed, summary, failed,
                 unreadable>>

\* neither a directory nor a regular file: call self.next()
NextSkip ==
  /\ pc = "next"
  /\ HasChild
  /\ kind[Child] \notin {"dir", "file"}
  /\ iterator_stack' = Advance(Top.pos + 1)
  /\ visited' = visited \cup {Child}
  /\ depth' = depth + 1
  /\ UNCHANGED <<kind, content, pc, entry, map, pass2, printed, summary,
                 emitted, failed, unreadable>>

(* ---------------------------- group_by_len ----------------------------- *)
SameSize(paths) == [tag |-> "SameSize", paths |-> paths]
Checksums(m) == [tag |-> "Checksums", map |-> m]

\* faulty variant: an Error entry creates the bucket of length 0 without
\* pushing a path
group_by_len_error_bucket(m, e) ==
  IF e.tag = "File"
    THEN LET bucket == IF e.len \in DOMAIN m THEN m[e.len].paths ELSE <<>>
         IN [k \in DOMAIN m \cup {e.len} |->
               IF k = e.len THEN SameSize(Append(bucket, e.path)) ELSE m[k]]
    ELSE [k \in DOMAIN m \cup {0} |->
            IF k \in DOMAIN m THEN m[k] ELSE SameSize(<<>>)]

\* map.0.entry(len).or_insert_with(|| SameSize(Vec::new())) then push(path);
\* an Error entry leaves the map as it is
group_by_len(m, e) ==
  IF e.tag = "File"
    THEN LET bucket == IF e.len \in DOMAIN m THEN m[e.len].paths ELSE <<>>
         IN [k \in DOMAIN m \cup {e.len} |->
               IF k = e.len THEN SameSize(Append(bucket, e.path)) ELSE m[k]]
    ELSE m

\* one step of walker.fold(Duplicates::new(), group_by_len), then next again
GroupByLen ==
  /\ pc = "fold"
  /\ map' = group_by_len(map, entry)
  /\ entry' = NoEntry
  /\ pc' = "next"
  /\ depth' = 1
  /\ UNCHANGED <<kind, content, iterator_stack, pass2, printed, summary,
                 emitted, visited, failed, unreadable>>

(* ----------------------- same_size_to_checksums ------------------------ *)
\* faulty variant: every path goes under one key, whatever its hash
InsertPathIgnoringHash(m, h, path) ==
  [k \in DOMAIN m \cup {0} |->
     IF k = 0 THEN Append(IF 0 \in DOMAIN m THEN m[0] ELSE <<>>, path)
              ELSE m[k]]

\* map.entry(hash).or_insert_with(|| Vec::new()) then entry.push(path)
InsertPath(m, h, path) ==
  [k \in DOMAIN m \cup {h} |->
     IF k = h THEN Append(IF h \in DOMAIN m THEN m[h] ELSE <<>>, path)
              ELSE m[k]]

\* the loop body: only a path whose fs::read is Ok is hashed and inserted
ChecksumStep(m, path, bad) ==
  IF path \notin bad
    THEN InsertPath(m, Hash(content[NodeAt(path)]), path)
    ELSE m

RECURSIVE ChecksumLoop(_, _, _, _)
\* for path in paths { ... }
ChecksumLoop(paths, i, m, bad) ==
  IF i > Len(paths) THEN m
  ELSE ChecksumLoop(paths, i + 1, ChecksumStep(m, paths[i], bad), bad)

\* faulty variant: single-member buckets are hashed too (len() > 0)
same_size_to_checksums_any(size, same, bad) ==
  IF same.tag = "SameSize"
    THEN IF Len(same.paths) > 0
           THEN <<size, Checksums(ChecksumLoop(same.paths, 1, EmptyMap, bad))>>
           ELSE <<size, same>>
    ELSE <<size, same>>

\* bad: the paths whose content cannot be read
same_size_to_checksums(size, same, bad) ==
  IF same.tag = "SameSize"
    THEN IF Len(same.paths) > 1
           THEN <<size, Checksums(ChecksumLoop(same.paths, 1, EmptyMap, bad))>>
           ELSE <<size, same>>
    ELSE <<size, same>>

\* the paths pass 2 tries to read
ReadPaths(m) ==
  UNION {Range(m[k].paths) : k \in {j \in DOMAIN m : Len(m[j].paths) > 1}}

\* pass1.0.into_iter().map(same_size_to_checksums).collect()
Pass2 ==
  /\ pc = "pass2"
  /\ \E bad \in SUBSET ReadPaths(map) :
       /\ unreadable' = bad
       /\ pass2' = [k \in DOMAIN map |-> same_size_to_checksums(k, map[k], bad)[2]]
  /\ pc' = "print"
  /\ UNCHANGED <<kind, content, iterator_stack, depth, entry, map, printed,
                 summary, emitted, visited, failed>>

(* ------------------------ summarize, print_result ---------------------- *)
\* the sequences that enumerate the set S once each: the orders in which a
\* HashMap may iterate its keys
Perms(S) ==
  {f \in [1..Cardinality(S) -> S] : \A i, j \in DOMAIN f : f[i] = f[j] => i = j}

\* as_path_iterator under one size key: cs.values() or iter::once(s)
as_path_iterator(size, same) ==
  IF same.tag = "Checksums"
    THEN {[i \in DOMAIN p |-> [size |-> size, paths |-> same.map[p[i]]]] :
            p \in Perms(DOMAIN same.map)}
    ELSE {<<[size |-> size, paths |-> same.paths]>>}

RECURSIVE FlatMap(_, _, _)
\* result.0.values().flat_map(as_path_iterator) along one order of the keys
FlatMap(m, keys, i) ==
  IF i > Len(keys) THEN {<<>>}
  ELSE {a \o b : a \in as_path_iterator(keys[i], m[keys[i]]),
                 b \in FlatMap(m, keys, i + 1)}

\* every order in which the size map and the checksum maps may be iterated
IterOrders(m) == UNION {FlatMap(m, keys, 1) : keys \in Perms(DOMAIN m)}

\* faulty variant: every member counts as a candidate (files, not files - 1)
SummarizeStepCountsAll(s, size, paths) ==
  LET files == Len(paths) IN
  [files |-> s.files + files,
   candidates |-> s.candidates + files,
   bytes |-> s.bytes + size * (files - 1)]

\* the body of both match arms of summarize
SummarizeStep(s, size, paths) ==
  LET files == Len(paths) IN
  [files |-> s.files + files,
   candidates |-> s.candidates + (files - 1),
   bytes |-> s.bytes + size * (files - 1)]

RECURSIVE SummarizeLoop(_, _, _)
SummarizeLoop(ord, i, s) ==
  IF i > Len(ord) THEN s
  ELSE SummarizeLoop(ord, i + 1, SummarizeStep(s, ord[i].size, ord[i].paths))

\* Duplicates::summarize, iterating the maps in the order ord
summarize(ord) == SummarizeLoop(ord, 1, NoSummary)

RECURSIVE PathCmp(_, _)
\* Path::cmp: component by component; -1 less, 0 equal, 1 greater
PathCmp(a, b) ==
  IF a = <<>> THEN (IF b = <<>> THEN 0 ELSE -1)
  ELSE IF b = <<>> THEN 1
  ELSE IF Head(a) < Head(b) THEN -1
  ELSE IF Head(a) > Head(b) THEN 1
  ELSE PathCmp(Tail(a), Tail(b))

\* faulty variant: the operands of the comparison are swapped
SortCmpReversed(a, b) == PathCmp(b[1], a[1])

\* the closure given to sort_by: (**a)[0].cmp(&(**b)[0])
SortCmp(a, b) == PathCmp(a[1], b[1])

\* stable insertion: g goes before the first element that compares greater
InsertSorted(s, g) ==
  LET after == {i \in 1..Len(s) : SortCmp(g, s[i]) < 0}
      k == IF after = {} THEN Len(s) + 1
           ELSE CHOOSE i \in after : \A j \in after : i <= j
  IN SubSeq(s, 1, k - 1) \o <<g>> \o SubSeq(s, k, Len(s))

\* faulty variant: the sort is left out
sort_by_omitted(x) == x

RECURSIVE SortLoop(_, _, _)
SortLoop(x, i, acc) ==
  IF i > Len(x) THEN acc ELSE SortLoop(x, i + 1, InsertSorted(acc, x[i]))

\* x.sort_by(...): a stable sort
sort_by(x) == SortLoop(x, 1, <<>>)

\* print_result: collect the groups, sort them, iterate (print) them in that
\* order, then summarize and print the summary
PrintResult ==
  /\ pc = "print"
  /\ \E ord \in IterOrders(pass2) :
       /\ printed' = sort_by([i \in DOMAIN ord |-> ord[i].paths])
       /\ summary' = summarize(ord)
  /\ pc' = "done"
  /\ UNCHANGED <<kind, content, iterator_stack, depth, entry, map, pass2,
                 emitted, visited, failed, unreadable>>

(* ---------------------------- specification ---------------------------- *)
Next ==
  \/ WalkerNew
  \/ NextNone
  \/ NextPop
  \/ NextEntryErr
  \/ NextMetadataPanic
  \/ NextFileTypeErr
  \/ NextDirPush
  \/ NextDirErr
  \/ NextFile
  \/ NextSkip
  \/ GroupByLen
  \/ Pass2
  \/ PrintResult

Spec == Init /\ [][Next]_vars

(* =============================== claims ================================ *)
\* every path list of a Duplicates, with the size key it is stored under
GroupsOf(m) ==
  UNION {IF m[k].tag = "Checksums"
           THEN {[size |-> k, paths |-> m[k].map[h]] : h \in DOMAIN m[k].map}
           ELSE {[size |-> k, paths |-> m[k].paths]} : k \in DOMAIN m}

\* the walker's sequence is over
Ended == pc \in {"pass2", "print", "done", "panic"}
\* the two-pass pipeline has produced the final result model
Final == pc \in {"print", "done"}

Retained == UNION {Range(g.paths) : g \in GroupsOf(pass2)}
SameGroup(p, q) ==
  \E g \in GroupsOf(pass2) : p \in Range(g.paths) /\ q \in Range(g.paths)
\* the length recorded for p when the walker classified it
RecordedLen(p) ==
  CHOOSE l \in 0..(MaxContent + 1) :
    \E i \in DOMAIN emitted : emitted[i] = [tag |-> "File", path |-> p, len |-> l]
ContentHash(p) == Hash(content[NodeAt(p)])

\* C1: in the final result model two distinct retained paths are in the same
\* group exactly when their recorded lengths are equal and their content
\* hashes are equal.
C1_SameGroupIffSameLenAndHash ==
  Final =>
    \A p, q \in Retained :
      p # q =>
        (SameGroup(p, q) <=>
           (RecordedLen(p) = RecordedLen(q) /\ ContentHash(p) = ContentHash(q)))

\* a model holding a duplicate pair and a third file of the same length but
\* other content
C1_Witness ==
  /\ pc = "done"
  /\ \E p, q, r \in Retained :
       /\ p # q /\ SameGroup(p, q)
       /\ RecordedLen(r) = RecordedLen(p) /\ ~SameGroup(p, r)

RECURSIVE SumW(_, _)
\* the sum of w[x] over the set S
SumW(S, w) ==
  IF S = {} THEN 0
  ELSE LET x == CHOOSE y \in S : TRUE IN w[x] + SumW(S \ {x}, w)

\* C2: summarize returns files = sum of n, candidates = sum of (n - 1) and
\* bytes = sum of s * (n - 1) over all groups (checksum sub-groups
\* flattened); files - candidates is the number of groups.
C2_SummaryIsSumOverGroups ==
  pc = "done" =>
    LET G == GroupsOf(pass2) IN
    /\ summary.files = SumW(G, [g \in G |-> Len(g.paths)])
    /\ summary.candidates = SumW(G, [g \in G |-> Len(g.paths) - 1])
    /\ summary.bytes = SumW(G, [g \in G |-> g.size * (Len(g.paths) - 1)])
    /\ summary.files - summary.candidates = Cardinality(G)

\* duplicates under two different size keys, one of them refined by checksum
\* into more than one group
C2_Witness ==
  /\ pc = "done"
  /\ \E k \in DOMAIN pass2 :
       pass2[k].tag = "Checksums" /\ Cardinality(DOMAIN pass2[k].map) >= 2
  /\ summary.candidates >= 1
  /\ summary.bytes > summary.candidates
  /\ Cardinality(DOMAIN pass2) >= 2

\* C3: the run is aborted only when the root directory cannot be opened, and
\* then before any output; no failure below the root aborts it.
C3_OnlyRootFailureIsFatal ==
  (pc \in {"fatal", "panic"}) =>
    (pc = "fatal" /\ iterator_stack = <<>> /\ emitted = <<>> /\ printed = <<>>)

\* the regular files under the root that are not behind a symbolic link
RegularFiles == FreeFiles(kind)
AllListed == \A f \in failed : f[1] \notin {"open", "entry"}

\* C4: when every directory can be listed, the File entries of the whole
\* sequence are exactly the regular files under the root not behind a
\* symbolic link, each once, with the length taken at classification.
C4_FilesExactlyRegularFiles ==
  (Ended /\ AllListed) =>
    /\ \A n \in RegularFiles :
         Cardinality({i \in DOMAIN emitted : emitted[i] = FileEntry(n)}) = 1
    /\ \A i \in DOMAIN emitted :
         emitted[i].tag = "File" =>
           \E n \in RegularFiles : emitted[i] = FileEntry(n)

IsStrictPrefix(a, b) == Len(a) < Len(b) /\ SubSeq(b, 1, Len(a)) = a

RECURSIVE RemainingAfter(_)
\* the nodes still to be yielded, once d has been yielded, by the cursor that
\* yielded d and by the cursors below it on the stack
RemainingAfter(d) ==
  IF d = Root THEN {}
  ELSE LET l == Listing[Parent(d)]
           at == CHOOSE i \in DOMAIN l : l[i] = d
       IN {l[j] : j \in (at + 1)..Len(l)} \cup RemainingAfter(Parent(d))

\* C5: a directory whose listing cannot be opened yields exactly one Error
\* with its path, is not pushed, yields nothing from inside, and every
\* remaining sibling in the cursors on the stack is still visited.
C5_OpenFailureSkipsOnlyThatDirectory ==
  \A d \in Nodes :
    (<<"open", d>> \in failed) =>
      /\ Cardinality({i \in DOMAIN emitted :
                        emitted[i] = ErrorEntry(PathOf(d))}) = 1
      /\ \A i \in DOMAIN iterator_stack : iterator_stack[i].dir # d
      /\ \A i \in DOMAIN emitted :
           emitted[i].tag # "None" => ~IsStrictPrefix(PathOf(d), emitted[i].path)
      /\ Ended => RemainingAfter(d) \subseteq visited

\* the smallest path of a group
MinPath(g) == CHOOSE p \in Range(g) : \A q \in Range(g) : PathCmp(p, q) <= 0

\* C6 (as stated): the groups are printed in the order of their smallest
\* paths.
C6_SortedBySmallestPath ==
  pc = "done" =>
    \A i, j \in DOMAIN printed :
      i < j => PathCmp(MinPath(printed[i]), MinPath(printed[j])) <= 0

\* C6 (amended): print_result presents exactly the flattened groups, in the
\* order of the first (first discovered) path of each group.
C6_SortedByFirstPath ==
  pc = "done" =>
    /\ Range(printed) = {g.paths : g \in GroupsOf(pass2)}
    /\ Len(printed) = Cardinality(GroupsOf(pass2))
    /\ \A i, j \in DOMAIN printed :
         i < j => PathCmp(printed[i][1], printed[j][1]) <= 0

\* two groups printed against the order of their smallest paths
C6_Witness ==
  /\ pc = "done"
  /\ \E i, j \in DOMAIN printed :
       i < j /\ PathCmp(MinPath(printed[i]), MinPath(printed[j])) > 0

\* C7: the printed sequence of groups and the summary are the same for every
\* iteration order of the size map and of each checksum map.
C7_OutputIndependentOfMapOrder ==
  pc = "done" =>
    \A ord \in IterOrders(pass2) :
      /\ sort_by([i \in DOMAIN ord |-> ord[i].paths]) = printed
      /\ summarize(ord) = summary

\* a result whose maps can be iterated in at least four different orders
C7_Witness ==
  /\ pc = "done"
  /\ Cardinality(IterOrders(pass2)) >= 4
  /\ Len(printed) >= 3

\* C8: the traversal uses no native recursion: while one item is produced
\* the number of live activations of Walker::next is the same whatever the
\* number of children skipped, directories descended into or cursors
\* popped, i.e. it stays at the single activation fold started.
C8_NoNestedActivation == depth <= 1

\* C9: the checksum phase keeps the size keys, leaves single-member buckets
\* unchanged, and splits every larger bucket into lists that hold, per hash,
\* exactly its readable members with that hash in discovery order.
C9_ChecksumPhasePartitions ==
  Final =>
    /\ DOMAIN pass2 = DOMAIN map
    /\ \A k \in DOMAIN map :
         LET b == map[k].paths IN
         IF Len(b) = 1
           THEN pass2[k] = map[k]
           ELSE /\ pass2[k].tag = "Checksums"
                /\ DOMAIN pass2[k].map =
                     {ContentHash(p) : p \in Range(b) \ unreadable}
                /\ \A h \in DOMAIN pass2[k].map :
                     pass2[k].map[h] =
                       SelectSeq(b, LAMBDA p : p \notin unreadable
                                               /\ ContentHash(p) = h)

\* a single-member bucket beside a bucket of three with two hashes and an
\* unreadable member
C9_Witness ==
  /\ pc = "done"
  /\ \E k \in DOMAIN map : Len(map[k].paths) = 1
  /\ \E k \in DOMAIN map :
       /\ Len(map[k].paths) >= 3
       /\ Range(map[k].paths) \cap unreadable # {}
       /\ Cardinality(DOMAIN pass2[k].map) >= 2

\* C10: every path list stored in the model, in pass 1 and in pass 2, has at
\* least one member.
C10_NoEmptyPathList ==
  \A g \in GroupsOf(map) \cup GroupsOf(pass2) : Len(g.paths) >= 1

\* Error entries were folded and a bucket of several members was unreadable
\* as a whole
C10_Witness ==
  /\ pc = "done"
  /\ \E i \in DOMAIN emitted : emitted[i].tag = "Error"
  /\ \E k \in DOMAIN pass2 :
       pass2[k].tag = "Checksums" /\ DOMAIN pass2[k].map = {}

====
